---- MODULE Spec2Model ----
(***************************************************************************)
(* A model of webantic/nginx-config-parser (src/lib/parser.js).            *)
(*                                                                         *)
(* JavaScript strings are TLA+ strings (Len, SubSeq, Head, Tail and \o act *)
(* on them character by character).  A JavaScript value is a record        *)
(*   [t, v, kv]   t = "u" undefined, "s" string, "o" object, "a" array     *)
(* where v is the text of a string and kv the own enumerable properties of *)
(* an object or array, in JavaScript's enumeration order (array-index keys *)
(* ascending, then the other keys in insertion order).  An array is the    *)
(* properties "0", "1", ...; its length is one more than its largest index.*)
(* Keys range over the characters of the input vocabulary, which spell no  *)
(* inherited property name (length, constructor, ...).                     *)
(***************************************************************************)
EXTENDS Integers, Sequences, FiniteSets, TLC

VARIABLES
    vocab,                        \* which vocabulary the input text is drawn from
    text,                         \* the physical lines handed to toJSON so far
    json,                         \* toJSON: const json
    parent,                       \* toJSON: let parent
    chunkedLine,                  \* toJSON: let chunkedLine ("" is null)
    countOfParentsThatAreArrays,  \* toJSON: let countOfParentsThatAreArrays
    isInLuaBlock,                 \* toJSON: let isInLuaBlock
    luaBlockValue,                \* toJSON: let luaBlockValue
    pc,                           \* position of the caller: parsing, parsed, serialized, reparsed
    conf,                         \* the string returned by toConf(json)
    json2,                        \* the tree returned by toJSON(conf)
    thrown,                       \* the exception toJSON has thrown ("" none)
    files,                        \* the file system: what each path holds
    fileName,                     \* this.fileName
    serverRoot,                   \* this.serverRoot
    pending,                      \* the fs callbacks not yet run
    outcome,                      \* how the calls ended, in order: returned, threw, cb, escaped
    ncalls                        \* calls made on the Parser instance so far

vars == <<vocab, text, json, parent, chunkedLine, countOfParentsThatAreArrays,
          isInLuaBlock, luaBlockValue, pc, conf, json2,
          thrown, files, fileName, serverRoot, pending, outcome, ncalls>>

\* the Parser instance, the file system and the calls in flight
apiVars == <<files, fileName, serverRoot, pending, outcome, ncalls>>

(***************************************************************************)
(* Bounds of the model.                                                    *)
(***************************************************************************)
MaxLines == 4

\* nested readConfigFile calls the call stack holds before the engine throws
\* RangeError
MaxDepth == 2

(***************************************************************************)
(* String primitives of JavaScript used by the parser.                     *)
(***************************************************************************)
Ch(s, i) == SubSeq(s, i, i)

IsSpace(c) == c \in {" ", "\t", "\n"}

IsDigit(c) == c \in {"0", "1", "2", "3", "4", "5", "6", "7", "8", "9"}

RECURSIVE TrimStart(_)
TrimStart(s) == IF s # "" /\ IsSpace(Head(s)) THEN TrimStart(Tail(s)) ELSE s

RECURSIVE TrimEnd(_)
TrimEnd(s) ==
    IF s # "" /\ IsSpace(Ch(s, Len(s))) THEN TrimEnd(SubSeq(s, 1, Len(s) - 1)) ELSE s

trim(s) == TrimEnd(TrimStart(s))

startsWith(s, p) == Len(s) >= Len(p) /\ SubSeq(s, 1, Len(p)) = p

endsWith(s, p) == Len(s) >= Len(p) /\ SubSeq(s, Len(s) - Len(p) + 1, Len(s)) = p

\* position of the first occurrence of the character c in s, 0 when absent
RECURSIVE IndexFrom(_, _, _)
IndexFrom(s, c, i) ==
    IF i > Len(s) THEN 0
    ELSE IF Ch(s, i) = c THEN i
    ELSE IndexFrom(s, c, i + 1)

indexOf(s, c) == IndexFrom(s, c, 1)

\* s.split(c) for a one-character separator: "".split(c) is [""]
RECURSIVE split(_, _)
split(s, c) ==
    LET i == indexOf(s, c)
    IN  IF i = 0 THEN <<s>>
        ELSE <<SubSeq(s, 1, i - 1)>> \o split(SubSeq(s, i + 1, Len(s)), c)

\* parts.join(sep): [].join(sep) is ""
RECURSIVE join(_, _)
join(parts, sep) ==
    IF Len(parts) = 0 THEN ""
    ELSE IF Len(parts) = 1 THEN parts[1]
    ELSE parts[1] \o sep \o join(Tail(parts), sep)

\* s.replace(/c/g, d) for one-character c and d
RECURSIVE replaceAll(_, _, _)
replaceAll(s, c, d) ==
    IF s = "" THEN ""
    ELSE (IF Head(s) = c THEN d ELSE Head(s)) \o replaceAll(Tail(s), c, d)

\* s.replace(c, '') with a string pattern: only the first occurrence goes
removeFirst(s, c) ==
    LET i == indexOf(s, c)
    IN  IF i = 0 THEN s ELSE SubSeq(s, 1, i - 1) \o SubSeq(s, i + 1, Len(s))

\* s.replace(p, '') with a string pattern p of any length
RECURSIVE IndexOfString(_, _, _)
IndexOfString(s, p, i) ==
    IF i + Len(p) - 1 > Len(s) THEN 0
    ELSE IF SubSeq(s, i, i + Len(p) - 1) = p THEN i
    ELSE IndexOfString(s, p, i + 1)

removeFirstString(s, p) ==
    LET i == IndexOfString(s, p, 1)
    IN  IF i = 0 THEN s ELSE SubSeq(s, 1, i - 1) \o SubSeq(s, i + Len(p), Len(s))

\* ' '.repeat(n)
RECURSIVE repeat(_, _)
repeat(s, n) == IF n <= 0 THEN "" ELSE s \o repeat(s, n - 1)

\* length of the run of whitespace s starts with
RECURSIVE WsRun(_)
WsRun(s) == IF s # "" /\ IsSpace(Head(s)) THEN 1 + WsRun(Tail(s)) ELSE 0

DigitValue(c) ==
    CASE c = "0" -> 0 [] c = "1" -> 1 [] c = "2" -> 2 [] c = "3" -> 3 [] c = "4" -> 4
      [] c = "5" -> 5 [] c = "6" -> 6 [] c = "7" -> 7 [] c = "8" -> 8 [] c = "9" -> 9

DigitChar(d) == Ch("0123456789", d + 1)

\* String(n) for a non-negative integer
RECURSIVE NumberToString(_)
NumberToString(n) ==
    IF n < 10 THEN DigitChar(n) ELSE NumberToString(n \div 10) \o DigitChar(n % 10)

AllDigits(s) == \A i \in 1..Len(s) : IsDigit(Ch(s, i))

\* value of a string of digits
RECURSIVE DigitsToNumber(_)
DigitsToNumber(s) ==
    IF s = "" THEN 0
    ELSE 10 * DigitsToNumber(SubSeq(s, 1, Len(s) - 1)) + DigitValue(Ch(s, Len(s)))

\* isNaN(parseInt(s, 10)): parseInt skips leading whitespace and one sign and
\* then reads the longest run of digits; it is NaN when that run is empty
parseIntIsNaN(s) ==
    LET t == TrimStart(s)
        u == IF t # "" /\ Head(t) \in {"+", "-"} THEN Tail(t) ELSE t
    IN  ~(u # "" /\ IsDigit(Head(u)))

(***************************************************************************)
(* JavaScript values.                                                      *)
(***************************************************************************)
Undefined == [t |-> "u", v |-> "", kv |-> <<>>]

String(s) == [t |-> "s", v |-> s, kv |-> <<>>]

Object(kv) == [t |-> "o", v |-> "", kv |-> kv]

Array(kv) == [t |-> "a", v |-> "", kv |-> kv]

Prop(k, n) == [k |-> k, n |-> n]

\* typeof x === 'object' (no value of the model is null)
IsObject(x) == x.t \in {"o", "a"}

\* Array.isArray(x)
IsArray(x) == x.t = "a"

\* the truthiness the `if (existingVal)` test of resolveAppendSet reads
Truthy(x) == IsObject(x) \/ (x.t = "s" /\ x.v # "")

\* an array index in canonical form: "0", "1", ..., never "01"
IsArrayIndex(k) == k # "" /\ AllDigits(k) /\ (k = "0" \/ Head(k) # "0")

HasProp(x, k) == \E i \in 1..Len(x.kv) : x.kv[i].k = k

\* x[k]
Get(x, k) ==
    IF IsObject(x) /\ HasProp(x, k)
    THEN x.kv[CHOOSE i \in 1..Len(x.kv) : x.kv[i].k = k].n
    ELSE Undefined

\* where a new key k goes in the enumeration order of x
InsertAt(x, k) ==
    IF IsArrayIndex(k)
    THEN 1 + Cardinality({i \in 1..Len(x.kv) :
                 /\ IsArrayIndex(x.kv[i].k)
                 /\ DigitsToNumber(x.kv[i].k) < DigitsToNumber(k)})
    ELSE Len(x.kv) + 1

\* x[k] = n
Put(x, k, n) ==
    IF HasProp(x, k)
    THEN LET i == CHOOSE j \in 1..Len(x.kv) : x.kv[j].k = k
         IN  [x EXCEPT !.kv[i] = Prop(k, n)]
    ELSE LET p == InsertAt(x, k)
         IN  [x EXCEPT !.kv = SubSeq(x.kv, 1, p - 1) \o <<Prop(k, n)>>
                                  \o SubSeq(x.kv, p, Len(x.kv))]

\* a.length
Length(a) ==
    LET idx == {DigitsToNumber(a.kv[i].k) : i \in {j \in 1..Len(a.kv) : IsArrayIndex(a.kv[j].k)}}
    IN  IF idx = {} THEN 0 ELSE 1 + (CHOOSE m \in idx : \A o \in idx : o <= m)

\* a.push(n)
Push(a, n) == Put(a, NumberToString(Length(a)), n)

\* the elements a.forEach visits, in order (holes and named properties are skipped)
RECURSIVE ElementsOf(_)
ElementsOf(kv) ==
    IF kv = <<>> THEN <<>>
    ELSE (IF IsArrayIndex(Head(kv).k) THEN <<Head(kv).n>> ELSE <<>>) \o ElementsOf(Tail(kv))

Elements(a) == ElementsOf(a.kv)

\* the array literal [e1, ..., en]
RECURSIVE PushAll(_, _)
PushAll(a, es) == IF es = <<>> THEN a ELSE PushAll(Push(a, Head(es)), Tail(es))

ArrayOf(es) == PushAll(Array(<<>>), es)

(***************************************************************************)
(* unsafeKey, safeKey, resolve, resolveSet                                 *)
(***************************************************************************)
unsafeKey(key) == replaceAll(key, "!", ".")

safeKey(key) == replaceAll(key, ".", "!")

RECURSIVE ResolveFrom(_, _)
ResolveFrom(prev, components) ==
    IF components = <<>> THEN prev
    ELSE ResolveFrom(IF IsObject(prev) THEN Get(prev, unsafeKey(Head(components)))
                     ELSE Undefined,
                     Tail(components))

resolve(obj, path) == ResolveFrom(obj, split(path, "."))

\* resolveSet walks existing objects only; [ok, obj] is its result and the
\* object after the call
RECURSIVE ResolveSetFrom(_, _, _)
\* obj once the walk below obj[k] has ended with r
SetBelow(obj, k, r) ==
    IF r.ok THEN [ok |-> TRUE, obj |-> Put(obj, k, r.obj)]
    ELSE [ok |-> FALSE, obj |-> obj]

\* the walk that makes an empty block for a component that does not exist and
\* stops at one that is a string or a collection
RECURSIVE ResolveSetCreating(_, _, _)
ResolveSetCreating(obj, components, val) ==
    IF obj.t # "o" THEN [ok |-> FALSE, obj |-> obj]
    ELSE IF Len(components) = 1
    THEN [ok |-> TRUE, obj |-> Put(obj, unsafeKey(components[1]), val)]
    ELSE SetBelow(obj, unsafeKey(Head(components)),
                  ResolveSetCreating(IF HasProp(obj, unsafeKey(Head(components)))
                                     THEN Get(obj, unsafeKey(Head(components)))
                                     ELSE Object(<<>>),
                                     Tail(components), val))

ResolveSetFrom(obj, components, val) ==
    IF ~IsObject(obj) THEN [ok |-> FALSE, obj |-> obj]
    ELSE IF Len(components) = 1
    THEN [ok |-> TRUE, obj |-> Put(obj, unsafeKey(components[1]), val)]
    ELSE SetBelow(obj, unsafeKey(Head(components)),
                  ResolveSetFrom(Get(obj, unsafeKey(Head(components))),
                                 Tail(components), val))

resolveSet(obj, path, val) == ResolveSetFrom(obj, split(path, "."), val)

(***************************************************************************)
(* resolveAppendSet, appendValue: [isInArray, json] is the returned flag   *)
(* and the tree after the call.                                            *)
(***************************************************************************)
\* the merge that keeps a collection of one kind: a value of the other kind
\* is not stored
MergedValuesOfOneKind(existingVal, val) ==
    IF ~Truthy(existingVal) THEN val
    ELSE IF IsArray(val)
    THEN PushAll(IF IsArray(existingVal) THEN existingVal ELSE ArrayOf(<<existingVal>>),
                 Elements(val))
    ELSE IF \E e \in {existingVal} \cup {existingVal.kv[i].n : i \in 1..Len(existingVal.kv)} :
                ~IsArray(e) /\ e.t # val.t
    THEN IF IsArray(existingVal) THEN existingVal ELSE ArrayOf(<<existingVal>>)
    ELSE Push(IF IsArray(existingVal) THEN existingVal ELSE ArrayOf(<<existingVal>>), val)

\* the value resolveAppendSet stores when it found existingVal
MergedValues(existingVal, val) ==
    IF ~Truthy(existingVal) THEN val
    ELSE IF IsArray(val)
    THEN PushAll(IF IsArray(existingVal) THEN existingVal ELSE ArrayOf(<<existingVal>>),
                 Elements(val))
    ELSE Push(IF IsArray(existingVal) THEN existingVal ELSE ArrayOf(<<existingVal>>), val)

AppendSet(tree, key, val, existingVal) ==
    [isInArray |-> Truthy(existingVal),
     json |-> resolveSet(tree, key, MergedValues(existingVal, val)).obj]

resolveAppendSet(tree, key, val) == AppendSet(tree, key, val, resolve(tree, key))

appendValue(tree, key, val, parentPath) ==
    IF parentPath # ""
    THEN resolveAppendSet(tree, parentPath \o "." \o key, val)
    ELSE resolveAppendSet(tree, key, val)

(***************************************************************************)
(* toJSON.  The parse state is the record of toJSON's locals; each step    *)
(* below is one branch of the body of innerLines.forEach.                  *)
(***************************************************************************)
\* options = {}: a missing includesRoot is "", a missing flag is FALSE
NoOptions == [parseIncludes |-> FALSE, includesRoot |-> "", ignoreIncludeErrors |-> FALSE]

\* the options readConfigFile supplies when it is given none
DefaultReadOptions ==
    [parseIncludes |-> TRUE, includesRoot |-> "", ignoreIncludeErrors |-> FALSE]

\* thrown is the exception that ended the call ("" while none has)
InitialState ==
    [json |-> Object(<<>>), parent |-> "", chunkedLine |-> "",
     countOfParentsThatAreArrays |-> 0, isInLuaBlock |-> FALSE, luaBlockValue |-> <<>>,
     thrown |-> ""]

(***************************************************************************)
(* The file system and the path module.  Paths hold no '.' or '..'         *)
(* segment; a path holds a regular file, a directory or nothing.           *)
(***************************************************************************)
\* this.serverRoot = null (dirname never returns '')
Null == ""

\* process.cwd()
Cwd == "/cwd"

NoFile == [kind |-> "none", data |-> ""]

File(data) == [kind |-> "file", data |-> data]

Dir == [kind |-> "dir", data |-> ""]

FileAt(p) == IF p \in DOMAIN files THEN files[p] ELSE NoFile

RECURSIVE LastIndexOf(_, _, _)
LastIndexOf(s, c, i) ==
    IF i = 0 THEN 0 ELSE IF Ch(s, i) = c THEN i ELSE LastIndexOf(s, c, i - 1)

\* path.dirname
dirname(p) ==
    LET i == LastIndexOf(p, "/", Len(p))
    IN  IF i = 0 THEN "." ELSE IF i = 1 THEN "/" ELSE SubSeq(p, 1, i - 1)

\* path.resolve(from, to)
pathResolve(from, to) ==
    LET base == IF startsWith(from, "/") THEN from
                ELSE IF from \in {"", "."} THEN Cwd
                ELSE Cwd \o "/" \o from
    IN  IF startsWith(to, "/") THEN to
        ELSE IF to \in {"", "."} THEN base
        ELSE base \o "/" \o to

\* a glob pattern against a path: '*' stands for any run of characters but '/'
RECURSIVE Matches(_, _)
Matches(pat, s) ==
    IF pat = "" THEN s = ""
    ELSE IF Head(pat) = "*"
    THEN Matches(Tail(pat), s) \/ (s # "" /\ Head(s) # "/" /\ Matches(pat, Tail(s)))
    ELSE s # "" /\ Head(s) = Head(pat) /\ Matches(Tail(pat), Tail(s))

\* the paths of the model, in the order glob returns them
Paths == <<"/cwd/a.conf", "/r/a.conf", "/r/b.conf", "/r/d", "/s/a.conf">>

\* glob.sync(pattern): files and directories that match
globSync(pattern) ==
    SelectSeq(Paths, LAMBDA q : FileAt(q).kind # "none" /\ Matches(pattern, q))

LuaSuffix == "by_lua_block"

LuaKey == "_lua"

\* lineRaw.replace(/(\s+{)/g, '\n$1\n')
RECURSIVE BreakAroundOpen(_)
BreakAroundOpen(s) ==
    IF s = "" THEN ""
    ELSE IF IsSpace(Head(s))
    THEN LET n == WsRun(s)
         IN  IF n < Len(s) /\ Ch(s, n + 1) = "{"
             THEN "\n" \o SubSeq(s, 1, n + 1) \o "\n" \o BreakAroundOpen(SubSeq(s, n + 2, Len(s)))
             ELSE SubSeq(s, 1, n) \o BreakAroundOpen(SubSeq(s, n + 1, Len(s)))
    ELSE Head(s) \o BreakAroundOpen(Tail(s))

\* .replace(/(;\s*)}/g, '$1\n}\n')
RECURSIVE BreakAroundClose(_)
BreakAroundClose(s) ==
    IF s = "" THEN ""
    ELSE IF Head(s) = ";"
    THEN LET n == WsRun(Tail(s))
         IN  IF n + 2 <= Len(s) /\ Ch(s, n + 2) = "}"
             THEN SubSeq(s, 1, n + 1) \o "\n}\n" \o BreakAroundClose(SubSeq(s, n + 3, Len(s)))
             ELSE ";" \o BreakAroundClose(Tail(s))
    ELSE Head(s) \o BreakAroundClose(Tail(s))

\* a break after every ';' of the line
RECURSIVE BreakAfterEvery(_)
BreakAfterEvery(s) ==
    IF s = "" THEN ""
    ELSE (IF Head(s) = ";" THEN ";\n" ELSE Head(s)) \o BreakAfterEvery(Tail(s))

\* .replace(/;\s*?$/g, ';\n'): without the m flag $ is the end of the string
BreakAfterLast(s) ==
    LET t == TrimEnd(s)
    IN  IF endsWith(t, ";") THEN t \o "\n" ELSE s

innerLinesOf(lineRaw) ==
    split(BreakAfterLast(BreakAroundClose(BreakAroundOpen(lineRaw))), "\n")

\* 1. Object opening line
\* the state once appendValue has stored the new block at path and returned r
Opened(st, path, lua, r) ==
    IF r.isInArray
    THEN [st EXCEPT !.chunkedLine = "", !.isInLuaBlock = lua, !.json = r.json,
             !.parent = path \o "." \o NumberToString(Length(resolve(r.json, path)) - 1),
             !.countOfParentsThatAreArrays = @ + 1]
    ELSE [st EXCEPT !.chunkedLine = "", !.isInLuaBlock = lua, !.json = r.json,
             !.parent = path]

OpenBlock(st, line) ==
    LET key == safeKey(trim(SubSeq(line, 1, Len(line) - 1)))
        path == IF st.parent # "" THEN st.parent \o "." \o key ELSE key
    IN  Opened(st, path, IF endsWith(key, LuaSuffix) THEN TRUE ELSE st.isInLuaBlock,
               appendValue(st.json, path, Object(<<>>), ""))

\* 3. Standard property line
Directive(st, line) ==
    LET parts == split(line, " ")
        key0 == safeKey(Head(parts))
        val0 == trim(join(Tail(parts), " "))
        key == IF endsWith(key0, ";") THEN SubSeq(key0, 1, Len(key0) - 1) ELSE key0
        val == SubSeq(val0, 1, Len(val0) - 1)
    IN  [st EXCEPT !.chunkedLine = "",
                   !.json = appendValue(st.json, key, String(val), st.parent).json]

Pop(q) == IF q = <<>> THEN <<>> ELSE SubSeq(q, 1, Len(q) - 1)

RECURSIVE Strings(_)
Strings(q) == IF q = <<>> THEN <<>> ELSE <<String(Head(q))>> \o Strings(Tail(q))

\* 4. Object closing line
CloseBlock(st) ==
    LET stored == IF st.isInLuaBlock
                  THEN appendValue(st.json, LuaKey, ArrayOf(Strings(st.luaBlockValue)),
                                   st.parent).json
                  ELSE st.json
        p == split(st.parent, ".")
        isIndex == st.countOfParentsThatAreArrays > 0 /\ ~parseIntIsNaN(p[Len(p)])
        q == IF isIndex THEN Pop(p) ELSE p
    IN  [st EXCEPT !.chunkedLine = "", !.json = stored,
                   !.luaBlockValue = IF st.isInLuaBlock THEN <<>> ELSE @,
                   !.isInLuaBlock = FALSE,
                   !.countOfParentsThatAreArrays = IF isIndex THEN @ - 1 ELSE @,
                   !.parent = join(Pop(q), ".")]

\* a Parser instance as the include branch reads it: this.serverRoot, and for
\* each path what `new Parser()`, given this.serverRoot, gets from
\* readConfigFile(path): [thrown, value]
Self(root, nested) == [serverRoot |-> root, nested |-> nested]

\* for (const key in config) this.appendValue(json, key, val, parent)
RECURSIVE MergeConfig(_, _, _)
MergeConfig(tree, kv, parentPath) ==
    IF kv = <<>> THEN tree
    ELSE MergeConfig(appendValue(tree, Head(kv).k, Head(kv).n, parentPath).json,
                     Tail(kv), parentPath)

\* files.forEach: each file is read by a new Parser that is given this.serverRoot
RECURSIVE IncludeFiles(_, _, _)
IncludeFiles(st, fs, self) ==
    IF fs = <<>> \/ st.thrown # "" THEN st
    ELSE IF self.nested[Head(fs)].thrown # ""
    THEN [st EXCEPT !.thrown = self.nested[Head(fs)].thrown]
    ELSE IncludeFiles([st EXCEPT !.json = MergeConfig(st.json, self.nested[Head(fs)].value.kv,
                                                      st.parent)],
                      Tail(fs), self)

\* 2. Standard include line
\* the state after files.forEach over the files glob found, then the throw
Included(st, found, options, self) ==
    IF found = <<>> /\ ~options.ignoreIncludeErrors
    THEN [st EXCEPT !.chunkedLine = "", !.thrown = "IncludeResolutionError"]
    ELSE IncludeFiles([st EXCEPT !.chunkedLine = ""], found, self)

IncludeLine(st, line, options, self) ==
    Included(st,
             globSync(pathResolve(
                 IF self.serverRoot # Null THEN self.serverRoot ELSE options.includesRoot,
                 trim(removeFirst(removeFirstString(line, "include "), ";")))),
             options, self)

\* the body of innerLines.forEach, the pending text glued on without a space
InnerLineGlued(st, line0, options, self) ==
    LET l == trim(line0)
        line == IF st.chunkedLine # "" THEN st.chunkedLine \o l ELSE l
    IN  IF l = "" THEN st
        ELSE IF st.isInLuaBlock /\ ~endsWith(l, "}")
        THEN [st EXCEPT !.luaBlockValue = Append(@, l)]
        ELSE IF endsWith(line, "{") THEN OpenBlock(st, line)
        ELSE IF startsWith(line, "include") /\ options.parseIncludes
        THEN IncludeLine(st, line, options, self)
        ELSE IF endsWith(line, ";") THEN Directive(st, line)
        ELSE IF endsWith(line, "}") THEN CloseBlock(st)
        ELSE [st EXCEPT !.chunkedLine = line]

\* the body of innerLines.forEach
InnerLine(st, line0, options, self) ==
    LET l == trim(line0)
        line == IF st.chunkedLine # "" THEN st.chunkedLine \o " " \o l ELSE l
    IN  IF l = "" THEN st
        ELSE IF st.isInLuaBlock /\ ~endsWith(l, "}")
        THEN [st EXCEPT !.luaBlockValue = Append(@, l)]
        ELSE IF endsWith(line, "{") THEN OpenBlock(st, line)
        ELSE IF startsWith(line, "include") /\ options.parseIncludes
        THEN IncludeLine(st, line, options, self)
        ELSE IF endsWith(line, ";") THEN Directive(st, line)
        ELSE IF endsWith(line, "}") THEN CloseBlock(st)
        ELSE [st EXCEPT !.chunkedLine = line]

\* innerLines.forEach; an exception ends it
RECURSIVE InnerLines(_, _, _, _)
InnerLines(st, ls, options, self) ==
    IF ls = <<>> \/ st.thrown # "" THEN st
    ELSE InnerLines(InnerLine(st, Head(ls), options, self), Tail(ls), options, self)

\* the body of lines.forEach with a '#' between double quotes left in the line
PhysicalLineQuoted(st, lineRaw0, options, self) ==
    LET lineRaw == trim(lineRaw0)
        cut == IF Cardinality({i \in 1..Len(split(lineRaw, "#")[1]) :
                                  Ch(lineRaw, i) = "\""}) % 2 = 1
               THEN lineRaw ELSE trim(split(lineRaw, "#")[1])
    IN  IF lineRaw = "" \/ startsWith(lineRaw, "#") THEN st
        ELSE InnerLines(st, innerLinesOf(cut), options, self)

\* the body of lines.forEach
PhysicalLine(st, lineRaw0, options, self) ==
    LET lineRaw == trim(lineRaw0)
    IN  IF lineRaw = "" \/ startsWith(lineRaw, "#") THEN st
        ELSE InnerLines(st, innerLinesOf(trim(split(lineRaw, "#")[1])), options, self)

\* lines.forEach; an exception ends it
RECURSIVE PhysicalLines(_, _, _, _)
PhysicalLines(st, ls, options, self) ==
    IF ls = <<>> \/ st.thrown # "" THEN st
    ELSE PhysicalLines(PhysicalLine(st, Head(ls), options, self), Tail(ls), options, self)

\* the state toJSON is in after the last line of conf
toJSONState(c, options, self) ==
    PhysicalLines(InitialState, split(removeFirst(c, "\t"), "\n"), options, self)

\* the tree toJSON returns (when it throws nothing)
toJSON(c, options, self) == toJSONState(c, options, self).json

Threw(e) == [thrown |-> e, value |-> Undefined]

Returned(x) == [thrown |-> "", value |-> x]

\* readConfigFile(file, options) without a callback, on an instance whose
\* serverRoot is root0, with depth readConfigFile frames already on the call
\* stack: [thrown, value] is what it throws or returns
RECURSIVE ReadAt(_, _, _, _)
\* what a call that ended in parse state st throws or returns
Outcome(st) == IF st.thrown # "" THEN Threw(st.thrown) ELSE Returned(st.json)

ReadAt(file, options, root0, depth) ==
    LET root == IF root0 = Null THEN dirname(file) ELSE root0
        f == FileAt(file)
    IN  IF depth > MaxDepth THEN Threw("RangeError")
        ELSE IF f.kind = "none" THEN Threw("ENOENT")
        ELSE IF f.kind # "file" THEN Threw("ReferenceError")
        ELSE Outcome(toJSONState(f.data, options,
                 Self(root, [q \in {Paths[i] : i \in 1..Len(Paths)} |->
                                 ReadAt(q, DefaultReadOptions, root, depth + 1)])))

\* what the files included by a call on an instance with serverRoot root get
Nested(root) ==
    [q \in {Paths[i] : i \in 1..Len(Paths)} |-> ReadAt(q, DefaultReadOptions, root, 1)]

readConfigFileSync(file, options, root0) == ReadAt(file, options, root0, 0)

(***************************************************************************)
(* toConf                                                                  *)
(***************************************************************************)
Indent == "    "

\* no key widens the column
MaxKeyLenOne(kv) == 1

RECURSIVE MaxKeyLen(_)
MaxKeyLen(kv) ==
    IF kv = <<>> THEN 1
    ELSE LET m == MaxKeyLen(Tail(kv))
         IN  IF Len(Head(kv).k) > m THEN Len(Head(kv).k) ELSE m

\* String(x) as Array.prototype.join applies it to an element
RECURSIVE ToStringJS(_)
RECURSIVE JoinArrayFrom(_, _, _)
ToStringJS(x) ==
    CASE x.t = "s" -> x.v
      [] x.t = "u" -> ""
      [] x.t = "o" -> "[object Object]"
      [] x.t = "a" -> JoinArrayFrom(x, ",", 0)

JoinArrayFrom(a, sep, i) ==
    IF i >= Length(a) THEN ""
    ELSE (IF i > 0 THEN sep ELSE "") \o ToStringJS(Get(a, NumberToString(i)))
         \o JoinArrayFrom(a, sep, i + 1)

\* a.join(sep)
JoinArray(a, sep) == JoinArrayFrom(a, sep, 0)

RECURSIVE recurse(_, _)
RECURSIVE EmitProps(_, _, _, _)
RECURSIVE EmitElements(_, _, _, _)

\* val.forEach(subVal => ...) of the array branch
EmitElements(es, key, keyValIndent, depth) ==
    IF es = <<>> THEN ""
    ELSE LET subVal == Head(es)
             indent == repeat(Indent, depth)
             block == IsObject(subVal)
             sub == IF block
                    THEN " {\n" \o recurse(subVal, depth + 1) \o indent \o "}\n\n"
                    ELSE ToStringJS(subVal)
             spacing == IF block THEN " " ELSE keyValIndent
         IN  indent \o trim(key \o spacing \o sub) \o (IF block THEN "\n" ELSE ";\n")
             \o EmitElements(Tail(es), key, keyValIndent, depth)

\* the second for (const key in obj) loop of recurse
EmitProps(kv, obj, depth, longestKeyLen) ==
    IF kv = <<>> THEN ""
    ELSE LET key == Head(kv).k
             val == Head(kv).n
             indent == repeat(Indent, depth)
             keyValIndent == repeat(" ", (longestKeyLen - Len(key)) + 4)
             out == IF IsArray(val)
                    THEN IF key = LuaKey
                         THEN (IF Length(val) > 0 THEN indent ELSE "")
                              \o JoinArray(val, "\n" \o indent) \o "\n"
                         ELSE EmitElements(Elements(val), key, keyValIndent, depth)
                    ELSE IF IsObject(val)
                    THEN indent \o key \o " {\n" \o recurse(val, depth + 1) \o indent \o "}\n\n"
                    ELSE indent \o trim(key \o keyValIndent \o ToStringJS(val)) \o ";\n"
         IN  out \o EmitProps(Tail(kv), obj, depth, longestKeyLen)

recurse(obj, depth) == EmitProps(obj.kv, obj, depth, MaxKeyLen(obj.kv))

toConf(tree) == recurse(tree, 0)

(***************************************************************************)
(* The input.  A text is a sequence of at most MaxLines physical lines of  *)
(* one vocabulary.                                                         *)
(***************************************************************************)
Vocabulary(v) ==
    CASE v = "directives"   -> {"a 1;", "a 2;", "a;", "b {", "}"}
      [] v = "blocks"       -> {"b {}", "b {", "}", "1 {}", "a 1;"}
      [] v = "keys"         -> {"a!b {", "a.b {", "a!b 1;", "a.b 1;", "}"}
      [] v = "lua"          -> {"by_lua_block {", "x = 1;", "y {", "z # c", "}"}
      [] v = "semicolons"   -> {"a \"x; y\" z;", "a \";}\" z;", "a 1; c 2;", "b {a 1; c 2;}", "b {"}
      [] v = "continuation" -> {"a x", "y", "z;", "\"y {z}\";", "a\tx", "b {", "}"}
      [] v = "conflicts"    -> {"a 1;", "a;", "a {", "}", "listen 80;"}
      [] v = "order"        -> {"404 a;", "200 b;", "x c;", "map {", "}"}
      [] v = "unterminated" -> {"b {", "a x", "by_lua_block {"}
      [] v = "comments"     -> {"a x # c", "y; # d", "  # e", "b { # f", "} # g",
                                "a \"x # y\" z;"}

Vocabularies == {"directives", "blocks", "keys", "lua", "semicolons", "continuation",
                 "conflicts", "order", "comments"}

(***************************************************************************)
(* The state machine: toJSON(text) line by line, then toConf of the tree   *)
(* it returned, then toJSON of that string.                                *)
(***************************************************************************)
Init ==
    /\ vocab \in Vocabularies
    /\ text = <<>>
    /\ json = InitialState.json
    /\ parent = InitialState.parent
    /\ chunkedLine = InitialState.chunkedLine
    /\ countOfParentsThatAreArrays = InitialState.countOfParentsThatAreArrays
    /\ isInLuaBlock = InitialState.isInLuaBlock
    /\ luaBlockValue = InitialState.luaBlockValue
    /\ pc = "parsing"
    /\ conf = ""
    /\ json2 = Undefined
    /\ thrown = InitialState.thrown
    /\ files = [q \in {} |-> NoFile]
    /\ fileName = Null
    /\ serverRoot = Null
    /\ pending = {}
    /\ outcome = <<>>
    /\ ncalls = 0

State ==
    [json |-> json, parent |-> parent, chunkedLine |-> chunkedLine,
     countOfParentsThatAreArrays |-> countOfParentsThatAreArrays,
     isInLuaBlock |-> isInLuaBlock, luaBlockValue |-> luaBlockValue,
     thrown |-> thrown]

\* the instance toJSON runs on
This == Self(serverRoot, Nested(serverRoot))

\* a new Parser() for a parse that reads no include (parseIncludes is off)
Fresh == Self(Null, <<>>)

\* conf.replace('\t', '') removes the first TAB of the whole text only
Untabbed(lineRaw) ==
    IF \E i \in 1..Len(text) : indexOf(text[i], "\t") # 0 THEN lineRaw
    ELSE removeFirst(lineRaw, "\t")

\* one turn of lines.forEach
\* toJSON's locals become those of st
Becomes(st) ==
    /\ json' = st.json
    /\ parent' = st.parent
    /\ chunkedLine' = st.chunkedLine
    /\ countOfParentsThatAreArrays' = st.countOfParentsThatAreArrays
    /\ isInLuaBlock' = st.isInLuaBlock
    /\ luaBlockValue' = st.luaBlockValue
    /\ thrown' = st.thrown

Line(lineRaw) ==
    /\ pc = "parsing"
    /\ thrown = ""
    /\ Len(text) < MaxLines
    /\ Becomes(PhysicalLine(State, Untabbed(lineRaw), NoOptions, Fresh))
    /\ text' = Append(text, lineRaw)
    /\ UNCHANGED <<vocab, pc, conf, json2, apiVars>>

\* the end of the input with a block or a lua block still open is an error, and
\* no tree is returned
ReturnMalformed ==
    /\ pc = "parsing"
    /\ pc' = "parsed"
    /\ thrown' = IF parent # "" \/ isInLuaBlock THEN "MalformedInput" ELSE thrown
    /\ json' = IF parent # "" \/ isInLuaBlock THEN Object(<<>>) ELSE json
    /\ UNCHANGED <<vocab, text, parent, chunkedLine, countOfParentsThatAreArrays,
                   isInLuaBlock, luaBlockValue, conf, json2, apiVars>>

\* return json
Return ==
    /\ pc = "parsing"
    /\ pc' = "parsed"
    /\ UNCHANGED <<vocab, text, json, parent, chunkedLine, countOfParentsThatAreArrays,
                   isInLuaBlock, luaBlockValue, conf, json2, thrown, apiVars>>

\* parser.toConf(json)
Serialize ==
    /\ pc = "parsed"
    /\ conf' = toConf(json)
    /\ pc' = "serialized"
    /\ UNCHANGED <<vocab, text, json, parent, chunkedLine, countOfParentsThatAreArrays,
                   isInLuaBlock, luaBlockValue, json2, thrown, apiVars>>

\* parser.toJSON(conf)
Reparse ==
    /\ pc = "serialized"
    /\ json2' = toJSON(conf, NoOptions, Fresh)
    /\ pc' = "reparsed"
    /\ UNCHANGED <<vocab, text, json, parent, chunkedLine, countOfParentsThatAreArrays,
                   isInLuaBlock, luaBlockValue, conf, thrown, apiVars>>

Next ==
    \/ \E lineRaw \in Vocabulary(vocab) : Line(lineRaw)
    \/ Return
    \/ Serialize
    \/ Reparse

Spec == Init /\ [][Next]_vars

(***************************************************************************)
(* The text as the claims read it: comments, statements, nesting.          *)
(***************************************************************************)
HasChar(s, c) == indexOf(s, c) # 0

CountChar(s, c) == Cardinality({i \in 1..Len(s) : Ch(s, i) = c})

\* no statement character, comment marker, quote or control character
PlainText(s) == \A i \in 1..Len(s) : Ch(s, i) \notin {";", "{", "}", "#", "\"", "\t", "\n"}

\* a physical line without its comment
Uncomment(l) ==
    LET t == trim(l)
    IN  IF HasChar(t, "#") THEN trim(SubSeq(t, 1, indexOf(t, "#") - 1)) ELSE t

IsCloseLine(l) == l = "}"

IsOpenLine(l) ==
    /\ endsWith(l, " {")
    /\ PlainText(SubSeq(l, 1, Len(l) - 2))
    /\ trim(SubSeq(l, 1, Len(l) - 2)) # ""

OpenKey(l) == trim(SubSeq(l, 1, Len(l) - 2))

\* key {} on one line
IsCompactLine(l) ==
    /\ endsWith(l, " {}")
    /\ PlainText(SubSeq(l, 1, Len(l) - 3))
    /\ trim(SubSeq(l, 1, Len(l) - 3)) # ""

IsDirectiveLine(l) ==
    /\ endsWith(l, ";")
    /\ PlainText(SubSeq(l, 1, Len(l) - 1))
    /\ Len(l) > 1
    /\ ~IsSpace(Head(l))

\* the first token of a statement and the text after it, without the last ';'
FirstToken(l) ==
    LET b == SubSeq(l, 1, Len(l) - 1)
    IN  IF HasChar(b, " ") THEN SubSeq(b, 1, indexOf(b, " ") - 1) ELSE b

ArgumentText(l) ==
    LET b == SubSeq(l, 1, Len(l) - 1)
    IN  IF HasChar(b, " ") THEN trim(SubSeq(b, indexOf(b, " ") + 1, Len(b))) ELSE ""

IsSimpleLine(l) == IsCloseLine(l) \/ IsOpenLine(l) \/ IsCompactLine(l) \/ IsDirectiveLine(l)

\* the statements of a text of simple lines, one per entry
RECURSIVE Logical(_)
Logical(ls) ==
    IF ls = <<>> THEN <<>>
    ELSE (IF IsCompactLine(Head(ls))
          THEN <<SubSeq(Head(ls), 1, Len(Head(ls)) - 1), "}">>
          ELSE <<Head(ls)>>) \o Logical(Tail(ls))

IsLuaOpen(l) == IsOpenLine(l) /\ endsWith(OpenKey(l), LuaSuffix)

\* directives and ordinary blocks only, one statement (or key {}) per line
AllSimple(ls) == \A i \in 1..Len(ls) : IsSimpleLine(ls[i]) /\ ~IsLuaOpen(ls[i])

\* no key of the text contains the character the path encoding reserves
NoBang(ls) == \A i \in 1..Len(ls) : ~HasChar(ls[i], "!")

\* blocks open after the first n statements
RECURSIVE DepthAfter(_, _)
DepthAfter(L, n) ==
    IF n = 0 THEN 0
    ELSE DepthAfter(L, n - 1)
         + (IF IsOpenLine(L[n]) THEN 1 ELSE IF IsCloseLine(L[n]) THEN -1 ELSE 0)

WellNested(L) == \A n \in 1..Len(L) : DepthAfter(L, n) >= 0

Balanced(L) == WellNested(L) /\ DepthAfter(L, Len(L)) = 0

MaxOf(S) == IF S = {} THEN 0 ELSE CHOOSE m \in S : \A o \in S : o <= m

\* the innermost block still open just before statement i (0: the top level)
EnclosingOpen(L, i) ==
    MaxOf({e \in 1..(i - 1) :
             /\ IsOpenLine(L[e])
             /\ \A m \in e..(i - 1) : DepthAfter(L, m) >= DepthAfter(L, e)})

\* the OpenBlock a CloseBlock at j closes
MatchingOpen(L, j) == EnclosingOpen(L, j)

\* earlier openings of the same key in the same block
EarlierSiblings(L, e) ==
    {x \in 1..(e - 1) : /\ IsOpenLine(L[x])
                        /\ OpenKey(L[x]) = OpenKey(L[e])
                        /\ EnclosingOpen(L, x) = EnclosingOpen(L, e)}

\* a key is used by directives only or by blocks only within one block
Unmixed(L) ==
    \A x, y \in 1..Len(L) :
        (IsOpenLine(L[x]) /\ IsDirectiveLine(L[y]) /\ EnclosingOpen(L, x) = EnclosingOpen(L, y))
            => OpenKey(L[x]) # FirstToken(L[y])

\* where the block opened at e belongs: its enclosing keys and collection indices
RECURSIVE Location(_, _)
Location(L, e) ==
    IF e = 0 THEN <<>>
    ELSE Location(L, EnclosingOpen(L, e)) \o <<OpenKey(L[e])>>
         \o (IF EarlierSiblings(L, e) = {} THEN <<>>
             ELSE <<NumberToString(Cardinality(EarlierSiblings(L, e)))>>)

\* the value the tree holds at a sequence of keys and indices
RECURSIVE At(_, _)
At(tree, segs) == IF segs = <<>> THEN tree ELSE At(Get(tree, Head(segs)), Tail(segs))

\* the parse state after a sequence of lines
After(ls) == toJSONState(join(ls, "\n"), NoOptions, Fresh)

\* deep equality of two values; the order of an object's keys does not count
RECURSIVE DeepEqual(_, _)
DeepEqual(x, y) ==
    /\ x.t = y.t
    /\ x.v = y.v
    /\ {x.kv[i].k : i \in 1..Len(x.kv)} = {y.kv[i].k : i \in 1..Len(y.kv)}
    /\ \A i \in 1..Len(x.kv) : DeepEqual(x.kv[i].n, Get(y, x.kv[i].k))

(***************************************************************************)
(* The claims.                                                             *)
(***************************************************************************)

\* C1: for every tree T that toJSON returns, toJSON(toConf(T)) deep-equals T.
C1_RoundTrip ==
    (/\ pc = "reparsed"
     /\ AllSimple(text) /\ WellNested(Logical(text)))
    => DeepEqual(json2, json)

\* the directives of key k written directly in the block that encloses statement n
SameKeyDirectives(L, n) ==
    {x \in 1..n : /\ IsDirectiveLine(L[x])
                  /\ FirstToken(L[x]) = FirstToken(L[n])
                  /\ EnclosingOpen(L, x) = EnclosingOpen(L, n)}

RECURSIVE ArgumentsOf(_, _, _)
ArgumentsOf(L, X, i) ==
    IF i > Len(L) THEN <<>>
    ELSE (IF i \in X THEN <<String(ArgumentText(L[i]))>> ELSE <<>>) \o ArgumentsOf(L, X, i + 1)

\* C2: n >= 2 directive occurrences of one key in one block (with any argument
\* text, the empty argument included) yield a Collection of exactly n Scalars in
\* encounter order: appendValue never discards the value a path already holds.
C2_RepeatedDirectives ==
    LET L == Logical(text)
        n == Len(L)
    IN  (/\ pc = "parsing" /\ n >= 2
         /\ AllSimple(text) /\ NoBang(text) /\ WellNested(L) /\ Unmixed(L)
         /\ IsDirectiveLine(L[n])
         /\ Cardinality(SameKeyDirectives(L, n)) >= 2)
        => At(json, Location(L, EnclosingOpen(L, n)) \o <<FirstToken(L[n])>>)
             = ArrayOf(ArgumentsOf(L, SameKeyDirectives(L, n), 1))

\* the statements between an OpenBlock at i and its CloseBlock at j
Body(L, i, j) == SubSeq(L, i + 1, j - 1)

\* the closing statement of the block opened at e (e is closed in L)
ClosingOf(L, e) ==
    CHOOSE j \in (e + 1)..Len(L) : IsCloseLine(L[j]) /\ MatchingOpen(L, j) = e

\* C3: in a well-nested input, a block key opened n >= 2 times in one block
\* yields a Collection of n Blocks in source order, the statements of the i-th
\* occurrence stored in the i-th element only; a lone occurrence is a bare Block.
C3_RepeatedBlocks ==
    LET L == Logical(text)
        n == Len(L)
        e == MatchingOpen(L, n)
        sibs == EarlierSiblings(L, e)
        base == Location(L, EnclosingOpen(L, e)) \o <<OpenKey(L[e])>>
    IN  (/\ pc = "parsing" /\ n >= 2
         /\ AllSimple(text) /\ NoBang(text) /\ WellNested(L) /\ Unmixed(L)
         /\ IsCloseLine(L[n]))
        => IF sibs = {}
           THEN At(json, base) = After(Body(L, e, n)).json
           ELSE /\ IsArray(At(json, base))
                /\ Len(At(json, base).kv) = Cardinality(sibs) + 1
                /\ At(json, Location(L, e)) = After(Body(L, e, n)).json
                /\ \A x \in sibs :
                     At(json, base \o <<NumberToString(Cardinality(EarlierSiblings(L, x)))>>)
                       = After(Body(L, x, ClosingOf(L, x))).json

\* the number of segments of a path that index a collection of the tree
RECURSIVE IndexSegments(_, _)
IndexSegments(tree, segs) ==
    IF segs = <<>> THEN 0
    ELSE (IF IsArray(tree) THEN 1 ELSE 0)
         + IndexSegments(Get(tree, unsafeKey(Head(segs))), Tail(segs))

\* C4: in a well-nested input, after the CloseBlock matching an OpenBlock the
\* current path is the path just before that OpenBlock (whatever the block key
\* starts with), and countOfParentsThatAreArrays is the number of collection
\* indices in the current path.
C4_ClosePopsOpen ==
    LET L == Logical(text)
        n == Len(L)
        before == After(SubSeq(L, 1, MatchingOpen(L, n) - 1))
    IN  (/\ pc = "parsing" /\ n >= 2
         /\ AllSimple(text) /\ WellNested(L)
         /\ IsCloseLine(L[n]))
        => /\ parent = before.parent
           /\ countOfParentsThatAreArrays = before.countOfParentsThatAreArrays
           /\ countOfParentsThatAreArrays = IndexSegments(json, split(parent, "."))

RECURSIVE OpenKeys(_)
OpenKeys(ls) == IF ls = <<>> THEN <<>> ELSE <<OpenKey(Head(ls))>> \o OpenKeys(Tail(ls))

RECURSIVE Decode(_)
Decode(segs) == IF segs = <<>> THEN <<>> ELSE <<unsafeKey(Head(segs))>> \o Decode(Tail(segs))

\* C5: the path encoding round-trips every key: the keys of the open blocks,
\* encoded with safeKey and joined with '.', then split on '.' and decoded with
\* unsafeKey, are the keys as written, and the tree stores the blocks under them.
C5_PathRoundTrip ==
    (/\ pc = "parsing" /\ Len(text) >= 1
     /\ \A i \in 1..Len(text) : IsOpenLine(text[i]))
    => /\ Decode(split(parent, ".")) = OpenKeys(text)
       /\ IsObject(At(json, OpenKeys(text)))

\* braces opened and not closed by the lines of a verbatim body
RECURSIVE BraceDepth(_, _)
BraceDepth(ls, n) ==
    IF n = 0 THEN 0
    ELSE BraceDepth(ls, n - 1) + CountChar(ls[n], "{") - CountChar(ls[n], "}")

RECURSIVE TrimmedLines(_)
TrimmedLines(ls) ==
    IF ls = <<>> THEN <<>> ELSE <<String(trim(Head(ls)))>> \o TrimmedLines(Tail(ls))

\* C6: every physical line of the body of a by_lua_block is stored, trimmed and
\* in order, as one entry of the array under the verbatim key of the block;
\* braces, semicolons and '#' inside the body end nothing, split nothing and
\* remove nothing.
C6_VerbatimBody ==
    LET n == Len(text)
        body == SubSeq(text, 2, n - 1)
    IN  (/\ pc = "parsing" /\ n >= 2
         /\ IsLuaOpen(text[1])
         /\ text[n] = "}"
         /\ \A m \in 1..Len(body) : BraceDepth(body, m) >= 0
         /\ BraceDepth(body, Len(body)) = 0)
        => json = Object(<<Prop(OpenKey(text[1]),
                               Object(<<Prop(LuaKey, ArrayOf(TrimmedLines(body)))>>))>>)

\* a text without comments and without any whitespace
RECURSIVE Squeeze(_)
Squeeze(s) ==
    IF s = "" THEN ""
    ELSE (IF IsSpace(Head(s)) THEN "" ELSE Head(s)) \o Squeeze(Tail(s))

\* no key occurs twice among siblings
NoDuplicateSiblings(L) ==
    \A x, y \in 1..Len(L) :
        (/\ x < y
         /\ ~IsCloseLine(L[x]) /\ ~IsCloseLine(L[y])
         /\ EnclosingOpen(L, x) = EnclosingOpen(L, y))
        => (IF IsOpenLine(L[x]) THEN OpenKey(L[x]) ELSE FirstToken(L[x]))
             # (IF IsOpenLine(L[y]) THEN OpenKey(L[y]) ELSE FirstToken(L[y]))

\* C7: for a text in which no key occurs twice among siblings,
\* toConf(toJSON(text)) holds the same keys, values and nesting as the text;
\* only whitespace differs.
C7_SerializeParse ==
    (/\ pc = "serialized" /\ Len(text) >= 1
     /\ AllSimple(text) /\ Balanced(Logical(text)) /\ NoDuplicateSiblings(Logical(text)))
    => Squeeze(conf) = Squeeze(join(text, "\n"))

\* the statement characters of a line
Statements(l) == CountChar(l, ";") + CountChar(l, "{") + CountChar(l, "}")

\* a line that packs several statements or block boundaries, none quoted
IsPackedLine(l) == ~HasChar(l, "\"") /\ ~HasChar(l, "#") /\ Statements(l) >= 2

\* one logical line per statement terminator and per brace
RECURSIVE BreakStatements(_)
BreakStatements(s) ==
    IF s = "" THEN ""
    ELSE (CASE Head(s) \in {";", "{"} -> Head(s) \o "\n"
            [] Head(s) = "}" -> "\n}\n"
            [] OTHER -> Head(s)) \o BreakStatements(Tail(s))

\* C8: in normal mode a physical line that packs several statements or block
\* boundaries is split into one logical line per statement terminator and per
\* brace: it is parsed as the same statements written on lines of their own.
C8_PackedLine ==
    LET n == Len(text)
        before == After(SubSeq(text, 1, n - 1))
    IN  (/\ pc = "parsing" /\ n >= 1
         /\ IsPackedLine(text[n])
         /\ ~before.isInLuaBlock /\ before.chunkedLine = "")
        => State = PhysicalLines(before, split(BreakStatements(text[n]), "\n"), NoOptions, Fresh)

\* a '{' that follows whitespace, a '}' that follows ';' and optional whitespace,
\* a TAB: what toJSON rewrites inside a physical line
HasOpenBoundary(l) == \E i \in 2..Len(l) : Ch(l, i) = "{" /\ IsSpace(Ch(l, i - 1))

HasCloseBoundary(l) ==
    \E i, j \in 1..Len(l) :
        /\ i < j /\ Ch(l, i) = ";" /\ Ch(l, j) = "}"
        /\ \A m \in (i + 1)..(j - 1) : IsSpace(Ch(l, m))

NoBoundary(l) == ~HasOpenBoundary(l) /\ ~HasCloseBoundary(l) /\ ~HasChar(l, "\t")

\* the first space-delimited token of a statement and the text that follows it,
\* up to but excluding the final ';'
KeyOf(l) ==
    IF HasChar(l, " ") THEN SubSeq(l, 1, indexOf(l, " ") - 1) ELSE SubSeq(l, 1, Len(l) - 1)

ValueOf(l) ==
    IF HasChar(l, " ") THEN TrimStart(SubSeq(l, indexOf(l, " ") + 1, Len(l) - 1)) ELSE ""

\* the state after one Directive of the statement l, handled in state st
OneDirective(st, l) ==
    [st EXCEPT !.chunkedLine = "",
               !.json = appendValue(st.json, safeKey(KeyOf(l)), String(ValueOf(l)),
                                    st.parent).json]

\* one directive on a line, no comment, with further ';' before the terminating one
HasInnerSemicolon(l) ==
    /\ endsWith(l, ";") /\ CountChar(l, ";") >= 2
    /\ ~IsSpace(Head(l)) /\ ~HasChar(l, "#")

IsPiece(l) ==
    /\ l # "" /\ l = trim(l) /\ ~HasChar(l, "#")
    /\ ~endsWith(l, ";") /\ ~endsWith(l, "{") /\ ~endsWith(l, "}")

Continued(ps) ==
    /\ Len(ps) >= 2
    /\ \A i \in 1..(Len(ps) - 1) : IsPiece(ps[i])
    /\ ps[Len(ps)] = trim(ps[Len(ps)]) /\ endsWith(ps[Len(ps)], ";")
    /\ ~HasChar(ps[Len(ps)], "#")

MaxCalls == 2

PathSet == {Paths[i] : i \in 1..Len(Paths)}

World(w) ==
    CASE w = "flat" ->
           [q \in PathSet |->
              CASE q = "/r/a.conf" -> File("a 1;")
                [] q = "/r/b.conf" -> File("a 2;\nx.y 3;")
                [] q = "/r/d" -> Dir
                [] q = "/s/a.conf" -> File("a 9;")
                [] OTHER -> NoFile]
      [] w = "nested" ->
           [q \in PathSet |->
              CASE q = "/r/a.conf" -> File("include b.conf;")
                [] q = "/r/b.conf" -> File("include missing.conf;")
                [] q = "/r/d" -> Dir
                [] OTHER -> NoFile]
      [] w = "rooted" ->
           [q \in PathSet |->
              CASE q = "/r/a.conf" -> File("a 1;")
                [] q = "/r/b.conf" -> File("a 2;")
                [] q = "/s/a.conf" -> File("include b.conf;")
                [] OTHER -> NoFile]
      [] w = "cyclic" ->
           [q \in PathSet |->
              CASE q = "/r/a.conf" -> File("include a.conf;")
                [] q = "/r/b.conf" -> File("a 2;")
                [] OTHER -> NoFile]

Worlds == {"flat", "nested", "rooted", "cyclic"}

\* the file names, texts, option objects and data the calls are made with
CallFiles == {"/r/a.conf", "/r/d", "/s/a.conf", "/s/new.conf"}

CallTexts == {"a 0;\ninclude *.conf;", "b {\ninclude a.conf;\n}"}

CallOptions ==
    {NoOptions, DefaultReadOptions,
     [parseIncludes |-> TRUE, includesRoot |-> "/r", ignoreIncludeErrors |-> FALSE],
     [parseIncludes |-> TRUE, includesRoot |-> "/r", ignoreIncludeErrors |-> TRUE]}

CallData == {String("w 1;\n"), Object(<<Prop("w", String("2"))>>)}

InitFiles ==
    /\ vocab \in Worlds
    /\ files = World(vocab)
    /\ text = <<>>
    /\ json = InitialState.json
    /\ parent = InitialState.parent
    /\ chunkedLine = InitialState.chunkedLine
    /\ countOfParentsThatAreArrays = InitialState.countOfParentsThatAreArrays
    /\ isInLuaBlock = InitialState.isInLuaBlock
    /\ luaBlockValue = InitialState.luaBlockValue
    /\ thrown = InitialState.thrown
    /\ pc = "calls"
    /\ conf = ""
    /\ json2 = Undefined
    /\ fileName = Null
    /\ serverRoot = Null
    /\ pending = {}
    /\ outcome = <<>>
    /\ ncalls = 0

parseVars == <<vocab, text, json, parent, chunkedLine, countOfParentsThatAreArrays,
               isInLuaBlock, luaBlockValue, pc, conf, json2, thrown>>

\* this.serverRoot is the directory of f after every setFileName(f)
RootAfterFile(f) == dirname(f)

\* this.serverRoot after setFileName(f)
RootAfter(f) == IF serverRoot = Null THEN dirname(f) ELSE serverRoot

\* one entry of outcome: call id, the method, its arguments, and how it ended:
\* "returned" or "threw" to the caller, "cb" (the callback was invoked with
\* err and value), "escaped" (an exception thrown inside an fs callback)
Event(id, op, args, how, err, value) ==
    [id |-> id, op |-> op, args |-> args, how |-> how, err |-> err, value |-> value]

Args(f, options, data, overwrite) ==
    [file |-> f, options |-> options, data |-> data, overwrite |-> overwrite]

SetFileName(f) ==
    /\ pc = "calls" /\ ncalls < MaxCalls
    /\ fileName' = f
    /\ serverRoot' = RootAfter(f)
    /\ ncalls' = ncalls + 1
    /\ outcome' = Append(outcome, Event(ncalls + 1, "setFileName",
                                        Args(f, NoOptions, Undefined, FALSE),
                                        "returned", "", Undefined))
    /\ UNCHANGED <<parseVars, files, pending>>

\* a synchronous call that threw or returned r
Ended(id, op, args, r) ==
    Event(id, op, args, IF r.thrown # "" THEN "threw" ELSE "returned", r.thrown, r.value)

\* parser.toJSON(c, options)
ToJSON(c, options) ==
    /\ pc = "calls" /\ ncalls < MaxCalls
    /\ outcome' = Append(outcome, Ended(ncalls + 1, "toJSON",
                                        Args(c, options, Undefined, FALSE),
                                        Outcome(toJSONState(c, options, This))))
    /\ ncalls' = ncalls + 1
    /\ UNCHANGED <<parseVars, files, fileName, serverRoot, pending>>

\* parser.readConfigFile(f, options)
ReadConfigFile(f, options) ==
    /\ pc = "calls" /\ ncalls < MaxCalls
    /\ fileName' = f
    /\ serverRoot' = RootAfter(f)
    /\ outcome' = Append(outcome, Ended(ncalls + 1, "readConfigFile",
                                        Args(f, options, Undefined, FALSE),
                                        readConfigFileSync(f, options, serverRoot)))
    /\ ncalls' = ncalls + 1
    /\ UNCHANGED <<parseVars, files, pending>>

\* an fs callback not yet run
Task(id, op, step, args) == [id |-> id, op |-> op, step |-> step, args |-> args]

\* parser.readConfigFile(f, cb, options): fs.stat is under way
ReadConfigFileCb(f, options) ==
    /\ pc = "calls" /\ ncalls < MaxCalls
    /\ fileName' = f
    /\ serverRoot' = RootAfter(f)
    /\ pending' = pending \cup {Task(ncalls + 1, "readConfigFile", "stat",
                                     Args(f, options, Undefined, FALSE))}
    /\ ncalls' = ncalls + 1
    /\ UNCHANGED <<parseVars, files, outcome>>

\* the callback of fs.stat in readConfigFile
ReadStat(t) ==
    /\ t \in pending /\ t.op = "readConfigFile" /\ t.step = "stat"
    /\ LET f == FileAt(t.args.file)
       IN  IF f.kind = "none"
           THEN /\ outcome' = Append(outcome, Event(t.id, t.op, t.args, "cb", "ENOENT", Undefined))
                /\ pending' = pending \ {t}
           ELSE IF f.kind # "file"
           THEN /\ outcome' = Append(outcome, Event(t.id, t.op, t.args, "cb",
                                                    "ReferenceError", Undefined))
                /\ pending' = pending \ {t}
           ELSE /\ pending' = (pending \ {t}) \cup {[t EXCEPT !.step = "readFile"]}
                /\ UNCHANGED outcome
    /\ UNCHANGED <<parseVars, files, fileName, serverRoot, ncalls>>

\* cb(null, this.parse(configString, options)): parse runs before cb is called,
\* so what it throws leaves the fs callback and cb is not called
Parsed(t, r) ==
    IF r.thrown # "" THEN Event(t.id, t.op, t.args, "escaped", r.thrown, Undefined)
    ELSE Event(t.id, t.op, t.args, "cb", "", r.value)

\* the callback of fs.readFile in readConfigFile: cb(null, this.parse(...))
ReadFile(t) ==
    /\ t \in pending /\ t.op = "readConfigFile" /\ t.step = "readFile"
    /\ outcome' = Append(outcome,
            IF FileAt(t.args.file).kind # "file"
            THEN Event(t.id, t.op, t.args, "cb", "EISDIR", Undefined)
            ELSE Parsed(t, Outcome(toJSONState(FileAt(t.args.file).data, t.args.options, This))))
    /\ pending' = pending \ {t}
    /\ UNCHANGED <<parseVars, files, fileName, serverRoot, ncalls>>

\* typeof data === 'object' ? this.toConf(data) : data
Written(data) == IF IsObject(data) THEN toConf(data) ELSE data.v

\* parser.writeConfigFile(f, data, overwrite)
WriteConfigFile(f, data, overwrite) ==
    /\ pc = "calls" /\ ncalls < MaxCalls
    /\ fileName' = f
    /\ serverRoot' = RootAfter(f)
    /\ LET k == FileAt(f).kind
           e == IF k = "none" THEN "ENOENT"
                ELSE IF k = "file" /\ ~overwrite THEN "File already exists"
                ELSE IF k = "dir" THEN "EISDIR"
                ELSE ""
       IN  /\ outcome' = Append(outcome,
                Event(ncalls + 1, "writeConfigFile", Args(f, NoOptions, data, overwrite),
                      IF e # "" THEN "threw" ELSE "returned", e, Undefined))
           /\ files' = IF e = "" THEN [files EXCEPT ![f] = File(Written(data))] ELSE files
    /\ ncalls' = ncalls + 1
    /\ UNCHANGED <<parseVars, pending>>

\* parser.writeConfigFile(f, data, overwrite, cb): fs.stat is under way
WriteConfigFileCb(f, data, overwrite) ==
    /\ pc = "calls" /\ ncalls < MaxCalls
    /\ fileName' = f
    /\ serverRoot' = RootAfter(f)
    /\ pending' = pending \cup {Task(ncalls + 1, "writeConfigFile", "stat",
                                     Args(f, NoOptions, data, overwrite))}
    /\ ncalls' = ncalls + 1
    /\ UNCHANGED <<parseVars, files, outcome>>

\* the callback of fs.stat in writeConfigFile
WriteStat(t) ==
    /\ t \in pending /\ t.op = "writeConfigFile" /\ t.step = "stat"
    /\ LET k == FileAt(t.args.file).kind
       IN  IF k = "none"
           THEN /\ outcome' = Append(outcome, Event(t.id, t.op, t.args, "cb", "ENOENT", Undefined))
                /\ pending' = pending \ {t}
           ELSE IF k # "file" /\ ~t.args.overwrite
           THEN /\ outcome' = Append(outcome, Event(t.id, t.op, t.args, "cb",
                                                    "File already exists", Undefined))
                /\ pending' = pending \ {t}
           ELSE /\ pending' = (pending \ {t}) \cup {[t EXCEPT !.step = "writeFile"]}
                /\ UNCHANGED outcome
    /\ UNCHANGED <<parseVars, files, fileName, serverRoot, ncalls>>

\* fs.writeFile and its callback
WriteFile(t) ==
    /\ t \in pending /\ t.op = "writeConfigFile" /\ t.step = "writeFile"
    /\ IF FileAt(t.args.file).kind = "dir"
       THEN /\ outcome' = Append(outcome, Event(t.id, t.op, t.args, "cb", "EISDIR", Undefined))
            /\ UNCHANGED files
       ELSE /\ outcome' = Append(outcome, Event(t.id, t.op, t.args, "cb", "", Undefined))
            /\ files' = [files EXCEPT ![t.args.file] = File(Written(t.args.data))]
    /\ pending' = pending \ {t}
    /\ UNCHANGED <<parseVars, fileName, serverRoot, ncalls>>

NextFiles ==
    \/ \E f \in CallFiles : SetFileName(f)
    \/ \E c \in CallTexts, o \in CallOptions : ToJSON(c, o)
    \/ \E f \in CallFiles, o \in CallOptions : ReadConfigFile(f, o)
    \/ \E f \in CallFiles, o \in CallOptions : ReadConfigFileCb(f, o)
    \/ \E t \in pending : ReadStat(t)
    \/ \E t \in pending : ReadFile(t)
    \/ \E f \in CallFiles, d \in CallData, w \in BOOLEAN : WriteConfigFile(f, d, w)
    \/ \E f \in CallFiles, d \in CallData, w \in BOOLEAN : WriteConfigFileCb(f, d, w)
    \/ \E t \in pending : WriteStat(t)
    \/ \E t \in pending : WriteFile(t)

FileSpec == InitFiles /\ [][NextFiles]_vars

(***************************************************************************)
(* Claims about the file calls, checked under FileSpec.                    *)
(***************************************************************************)
\* the event a step added to outcome
Last(q) == q[Len(q)]

\* C11: a writeConfigFile call with overwrite = false that finds a regular
\* file at fileName ends with the 'File already exists' error and leaves every
\* file as it was, without a callback and with one; and a regular file
\* changes only in a step that ends a writeConfigFile call on that path whose
\* overwrite is true.
C11_OverwriteFalse ==
    [][/\ (/\ Len(outcome') > Len(outcome)
           /\ Last(outcome').op = "writeConfigFile"
           /\ ~Last(outcome').args.overwrite
           /\ FileAt(Last(outcome').args.file).kind = "file")
          => (Last(outcome').err = "File already exists" /\ files' = files)
       /\ \A p \in DOMAIN files :
            (files[p].kind = "file" /\ files'[p] # files[p])
            => /\ Len(outcome') > Len(outcome)
               /\ Last(outcome').op = "writeConfigFile"
               /\ Last(outcome').args.file = p
               /\ Last(outcome').args.overwrite]_vars

\* the calls of readConfigFile made with a callback that have run to their end
FinishedReads == {i \in 1..ncalls : /\ \A t \in pending : t.id # i
                                    /\ \E j \in 1..Len(outcome) :
                                         /\ outcome[j].id = i
                                         /\ outcome[j].op = "readConfigFile"
                                         /\ outcome[j].how \in {"cb", "escaped"}}

\* C12: every readConfigFile call made with a callback, once no fs callback
\* of it is left to run, has invoked cb exactly once, with an error and no
\* tree or with no error and the tree, and no exception has left an fs
\* callback of it.
C12_CallbackOnce ==
    \A i \in FinishedReads :
        /\ Cardinality({j \in 1..Len(outcome) : outcome[j].id = i /\ outcome[j].how = "cb"}) = 1
        /\ \A j \in 1..Len(outcome) : outcome[j].id = i => outcome[j].how # "escaped"

\* C13: a call whose options have ignoreIncludeErrors = true never ends with
\* an IncludeResolutionError, whether the include that finds no file is in the
\* text given to the call or in a file it includes, at any depth.
C13_IgnoreIncludeErrors ==
    \A j \in 1..Len(outcome) :
        outcome[j].args.options.ignoreIncludeErrors => outcome[j].err # "IncludeResolutionError"

\* C14: a toJSON call with parseIncludes = true and includesRoot = R ends as
\* the parse that resolves the include patterns of its text against R ends,
\* whatever calls the instance has served before.
C14_IncludesRoot ==
    [][(/\ Len(outcome') > Len(outcome)
        /\ Last(outcome').op = "toJSON"
        /\ Last(outcome').args.options.parseIncludes
        /\ Last(outcome').args.options.includesRoot # "")
       => Last(outcome') = Ended(Last(outcome').id, "toJSON", Last(outcome').args,
                                 Outcome(toJSONState(Last(outcome').args.file,
                                                     Last(outcome').args.options,
                                                     Self(Null, Nested(serverRoot)))))]_vars

\* the block of tree at the dotted path P the parser keeps in `parent`
BlockAt(tree, P) == IF P = "" THEN tree ELSE At(tree, Decode(split(P, ".")))

\* every top-level key of the tree read from each file of found is a key of block
KeysKept(block, found, nested) ==
    \A n \in 1..Len(found) :
        \A m \in 1..Len(nested[found[n]].value.kv) :
            HasProp(block, nested[found[n]].value.kv[m].k)

\* C18: when a toJSON call that parses includes returns, then for every
\* include line of its text, every file its pattern resolves to and every
\* top-level key k of the tree read from that file (a key holding '.'
\* included), the returned tree has k in the block at the path the include
\* line was met at: no key of a fragment is dropped.
C18_FragmentKeys ==
    [][(/\ Len(outcome') > Len(outcome)
        /\ Last(outcome').op = "toJSON"
        /\ Last(outcome').how = "returned"
        /\ Last(outcome').args.options.parseIncludes)
       => LET lines == split(Last(outcome').args.file, "\n")
          IN  \A i \in 1..Len(lines) :
                startsWith(trim(lines[i]), "include")
                => KeysKept(BlockAt(Last(outcome').value,
                                    toJSONState(join(SubSeq(lines, 1, i - 1), "\n"),
                                                Last(outcome').args.options, This).parent),
                            globSync(pathResolve(
                                IF serverRoot # Null THEN serverRoot
                                ELSE Last(outcome').args.options.includesRoot,
                                trim(removeFirst(removeFirstString(trim(lines[i]), "include "), ";")))),
                            Nested(serverRoot))]_vars

(***************************************************************************)
(* Claims about the parse and about toConf, checked under Spec.            *)
(***************************************************************************)
\* every collection of x holds strings only or blocks only
RECURSIVE Homogeneous(_)
Homogeneous(x) ==
    /\ IsArray(x) => \/ \A i \in 1..Len(x.kv) : x.kv[i].n.t = "s"
                     \/ \A i \in 1..Len(x.kv) : x.kv[i].n.t = "o"
    /\ \A i \in 1..Len(x.kv) : Homogeneous(x.kv[i].n)

\* C15 as stated: a parse that returns a tree returns one whose collections
\* are all homogeneous; a key used as a directive and as a block at one level
\* ends the parse with an error instead.
C15_Homogeneous == pc = "parsed" => (thrown # "" \/ Homogeneous(json))

\* the key, the value and the path of the statement on the simple line l
StatementKey(l) == safeKey(IF IsOpenLine(l) THEN OpenKey(l) ELSE FirstToken(l))

StatementValue(l) == IF IsOpenLine(l) THEN Object(<<>>) ELSE String(ArgumentText(l))

StatementPath(l) == IF parent # "" THEN parent \o "." \o StatementKey(l) ELSE StatementKey(l)

\* the collection of the value old (its elements when it is one) and then new
Promoted(old, new) == PushAll(ArrayOf(IF IsArray(old) THEN Elements(old) ELSE <<old>>), <<new>>)

\* C15: when a directive line or a block-opening line is read (outside a lua
\* block, nothing pending) and its path already holds a non-empty value, the
\* path holds afterwards the collection of the old value, or of its elements
\* when it was a collection, followed by the new value, whatever their kinds,
\* and no error is raised.
C15_PromotesAnyKind ==
    [][(/\ pc = "parsing" /\ Len(text') = Len(text) + 1
        /\ chunkedLine = "" /\ ~isInLuaBlock
        /\ IsOpenLine(Last(text')) \/ IsDirectiveLine(Last(text'))
        /\ Truthy(resolve(json, StatementPath(Last(text')))))
       => /\ thrown' = ""
          /\ resolve(json', StatementPath(Last(text')))
               = Promoted(resolve(json, StatementPath(Last(text'))),
                          StatementValue(Last(text')))]_vars

\* a directive and then a block of the same key have become a mixed collection
C15_Witness ==
    /\ pc = "parsing" /\ text = <<"a 1;", "a {">>
    /\ Get(json, "a") = ArrayOf(<<String("1"), Object(<<>>)>>)
    /\ ~Homogeneous(json)

\* C16 as stated: a parse that reaches the end of the input with a block
\* still open or a lua block unterminated reports the MalformedInput error.
C16_Unterminated ==
    (pc = "parsed" /\ text # <<>> /\ (parent # "" \/ isInLuaBlock)) => thrown = "MalformedInput"

\* C16: at the end of an input that leaves a block open or a lua block
\* unterminated, toJSON raises nothing and returns the tree as the lines
\* built it: the open block is in it, and the lines of the unterminated lua
\* block, still buffered, are not.
C16_ReturnsPartialTree ==
    [][(pc = "parsing" /\ pc' = "parsed" /\ thrown = "" /\ (parent # "" \/ isInLuaBlock))
       => /\ thrown' = ""
          /\ json' = json
          /\ parent # ""
          /\ IsObject(resolve(json', parent))
          /\ isInLuaBlock => ~HasProp(resolve(json', parent), LuaKey)]_vars

\* the input has ended inside a lua block whose lines are buffered
C16_Witness ==
    /\ pc = "parsed" /\ thrown = ""
    /\ parent # "" /\ isInLuaBlock /\ luaBlockValue # <<>>
    /\ Get(json, "by_lua_block") = Object(<<>>)

\* the lines of a text
LinesOf(s) == {split(s, "\n")[i] : i \in 1..Len(split(s, "\n"))}

\* the length of the longest key of block b, at least 1
LongestKey(b) == MaxOf({Len(b.kv[i].k) : i \in 1..Len(b.kv)} \cup {1})

\* the blocks toConf visits from block b at depth d, each with its depth: b
\* itself, the blocks that are its children and the blocks that are elements
\* of its collections, and what it visits from them
RECURSIVE BlocksBelow(_, _)
BlocksBelow(b, d) ==
    {<<b, d>>} \cup
    UNION {IF b.kv[i].n.t = "o" THEN BlocksBelow(b.kv[i].n, d + 1)
           ELSE IF b.kv[i].n.t = "a" /\ b.kv[i].k # LuaKey
           THEN UNION {BlocksBelow(b.kv[i].n.kv[j].n, d + 1) :
                          j \in {m \in 1..Len(b.kv[i].n.kv) :
                                   /\ IsArrayIndex(b.kv[i].n.kv[m].k)
                                   /\ b.kv[i].n.kv[m].n.t = "o"}}
           ELSE {} : i \in 1..Len(b.kv)}

\* the line C19 prescribes for the scalar child p of block b at depth d
PaddedLine(b, d, p) ==
    repeat(" ", 4 * d) \o p.k \o repeat(" ", (LongestKey(b) - Len(p.k)) + 4) \o p.n.v \o ";"

\* C19 as stated: every scalar child (key, v) of every block at depth d is
\* emitted as the line 4*d spaces, key, maxKeyLen - len(key) + 4 spaces, v,
\* ';', for every v, the empty string included.
C19_ScalarLine ==
    pc = "serialized" =>
        \A bd \in BlocksBelow(json, 0) :
            \A i \in 1..Len(bd[1].kv) :
                bd[1].kv[i].n.t = "s" => PaddedLine(bd[1], bd[2], bd[1].kv[i]) \in LinesOf(conf)

\* the line toConf emits: key, padding and v are trimmed as one string
TrimmedLine(b, d, p) ==
    repeat(" ", 4 * d)
    \o trim(p.k \o repeat(" ", (LongestKey(b) - Len(p.k)) + 4) \o p.n.v) \o ";"

\* C19: every scalar child (key, v) of every block at depth d is emitted as
\* the line 4*d spaces, then key, maxKeyLen - len(key) + 4 spaces and v with
\* the whitespace at both ends of that string removed, then ';': an empty v is
\* emitted as key and ';' with no padding between.
C19_ScalarLineTrimmed ==
    pc = "serialized" =>
        \A bd \in BlocksBelow(json, 0) :
            \A i \in 1..Len(bd[1].kv) :
                bd[1].kv[i].n.t = "s" => TrimmedLine(bd[1], bd[2], bd[1].kv[i]) \in LinesOf(conf)

\* a directive without a value and one with a longer key have been serialized
C19_Witness ==
    /\ pc = "serialized"
    /\ Get(json, "a") = String("")
    /\ Get(json, "listen") = String("80")
    /\ {"a;", "listen    80;"} \subseteq LinesOf(conf)

\* the text a lone block e under key gets in a block at depth d
LoneBlockText(key, e, d) ==
    repeat(" ", 4 * d) \o key \o " {\n" \o recurse(e, d + 1) \o repeat(" ", 4 * d) \o "}\n\n"

\* C20: for every collection of every block at depth d, each element that is
\* a block is in the output with the text a lone block under that key gets:
\* indent, key, ' {', newline, the body at depth d + 1, indent, '}' and two
\* newlines; and '};' is nowhere in the output.
C20_BlockElements ==
    pc = "serialized" =>
        /\ \A bd \in BlocksBelow(json, 0) :
             \A i \in 1..Len(bd[1].kv) :
                (bd[1].kv[i].n.t = "a" /\ bd[1].kv[i].k # LuaKey)
                => \A j \in 1..Len(bd[1].kv[i].n.kv) :
                      (IsArrayIndex(bd[1].kv[i].n.kv[j].k) /\ bd[1].kv[i].n.kv[j].n.t = "o")
                      => IndexOfString(conf, LoneBlockText(bd[1].kv[i].k,
                                                           bd[1].kv[i].n.kv[j].n, bd[2]), 1) # 0
        /\ IndexOfString(conf, "};", 1) = 0

(***************************************************************************)
(* resolve and resolveSet called on a tree the caller holds.               *)
(***************************************************************************)
\* true, false
Boolean(b) == [t |-> "b", v |-> IF b THEN "true" ELSE "false", kv |-> <<>>]

\* the trees the calls start from
SetTrees ==
    {Object(<<>>),
     Object(<<Prop("a", Object(<<Prop("b", String("1"))>>))>>),
     Object(<<Prop("a", String("1"))>>),
     Object(<<Prop("a", ArrayOf(<<String("1")>>))>>)}

SetPaths == {"a", "a.b", "a.b.c", "x!y.z"}

SetValues == {String("v"), Object(<<>>)}

InitSet ==
    /\ vocab = "resolveSet"
    /\ text = <<>>
    /\ json \in SetTrees
    /\ parent = InitialState.parent
    /\ chunkedLine = InitialState.chunkedLine
    /\ countOfParentsThatAreArrays = InitialState.countOfParentsThatAreArrays
    /\ isInLuaBlock = InitialState.isInLuaBlock
    /\ luaBlockValue = InitialState.luaBlockValue
    /\ pc = "paths"
    /\ conf = ""
    /\ json2 = Undefined
    /\ thrown = InitialState.thrown
    /\ files = [q \in {} |-> NoFile]
    /\ fileName = Null
    /\ serverRoot = Null
    /\ pending = {}
    /\ outcome = <<>>
    /\ ncalls = 0

\* parser.resolveSet(json, path, val)
ResolveSet(path, val) ==
    /\ pc = "paths" /\ ncalls < MaxCalls
    /\ json' = resolveSet(json, path, val).obj
    /\ outcome' = Append(outcome, Event(ncalls + 1, "resolveSet", Args(path, NoOptions, val, FALSE),
                                        "returned", "", Boolean(resolveSet(json, path, val).ok)))
    /\ ncalls' = ncalls + 1
    /\ UNCHANGED <<vocab, text, parent, chunkedLine, countOfParentsThatAreArrays, isInLuaBlock,
                   luaBlockValue, pc, conf, json2, thrown, files, fileName, serverRoot, pending>>

\* parser.resolve(json, path)
Resolve(path) ==
    /\ pc = "paths" /\ ncalls < MaxCalls
    /\ outcome' = Append(outcome, Event(ncalls + 1, "resolve", Args(path, NoOptions, Undefined, FALSE),
                                        "returned", "", resolve(json, path)))
    /\ ncalls' = ncalls + 1
    /\ UNCHANGED <<parseVars, files, fileName, serverRoot, pending>>

NextSet ==
    \/ \E p \in SetPaths, v \in SetValues : ResolveSet(p, v)
    \/ \E p \in SetPaths : Resolve(p)

SetSpec == InitSet /\ [][NextSet]_vars

\* the components of a path, decoded, and the values at its proper prefixes
Components(path) == Decode(split(path, "."))

Intermediates(tree, path) ==
    {At(tree, SubSeq(Components(path), 1, k)) : k \in 0..(Len(Components(path)) - 1)}

\* C17 as stated: resolveSet makes an empty block for each intermediate
\* segment that does not exist, stores the value and returns true; it returns
\* false, the tree unchanged, exactly when an intermediate segment exists and
\* is a string or a collection; resolve changes nothing.
C17_CreatesIntermediates ==
    [][(Len(outcome') > Len(outcome) /\ Last(outcome').op \in {"resolveSet", "resolve"})
       => IF Last(outcome').op = "resolve" THEN json' = json
          ELSE /\ json' = ResolveSetCreating(json, split(Last(outcome').args.file, "."),
                                             Last(outcome').args.data).obj
               /\ Last(outcome').value
                    = Boolean(ResolveSetCreating(json, split(Last(outcome').args.file, "."),
                                                 Last(outcome').args.data).ok)]_vars

\* C17: resolveSet makes no intermediate.  When the tree and every value at
\* an intermediate segment of the path are blocks or collections, it stores
\* the value at the path and returns true; otherwise (an intermediate segment
\* is missing or holds a string) it returns false and the tree is as before.
\* resolve returns the value at the path, or undefined when a segment is
\* missing or is below a string, and the tree is as before.
C17_ExistingOnly ==
    [][(Len(outcome') > Len(outcome) /\ Last(outcome').op \in {"resolveSet", "resolve"})
       => IF Last(outcome').op = "resolve"
          THEN /\ json' = json
               /\ Last(outcome').value
                    = IF \A x \in Intermediates(json, Last(outcome').args.file) : IsObject(x)
                      THEN At(json, Components(Last(outcome').args.file))
                      ELSE Undefined
          ELSE IF \A x \in Intermediates(json, Last(outcome').args.file) : IsObject(x)
          THEN /\ Last(outcome').value = Boolean(TRUE)
               /\ At(json', Components(Last(outcome').args.file)) = Last(outcome').args.data
               /\ \A k \in 0..(Len(Components(Last(outcome').args.file)) - 1) :
                    At(json', SubSeq(Components(Last(outcome').args.file), 1, k)).t
                      = At(json, SubSeq(Components(Last(outcome').args.file), 1, k)).t
          ELSE /\ Last(outcome').value = Boolean(FALSE)
               /\ json' = json]_vars

\* resolveSet has refused a path whose intermediate segment does not exist
C17_Witness ==
    /\ pc = "paths" /\ outcome # <<>>
    /\ Last(outcome).op = "resolveSet"
    /\ Last(outcome).args.file = "a.b"
    /\ Last(outcome).value = Boolean(FALSE)
    /\ json = Object(<<>>)

(***************************************************************************)
(* Claims about the order of keys, comments and the state between calls.   *)
(***************************************************************************)
\* a sequence without the later occurrences of its entries
RECURSIVE Dedup(_)
Dedup(q) ==
    IF q = <<>> THEN <<>>
    ELSE LET d == Dedup(Pop(q))
         IN  IF \E i \in 1..Len(d) : d[i] = q[Len(q)] THEN d ELSE Append(d, q[Len(q)])

\* the keys of the directive lines ls, in order, as the tree stores them
RECURSIVE DirectiveKeys(_)
DirectiveKeys(ls) ==
    IF ls = <<>> THEN <<>> ELSE <<unsafeKey(FirstToken(Head(ls)))>> \o DirectiveKeys(Tail(ls))

\* the keys of the directives a text of directives holds, line by line
RECURSIVE EmittedKeys(_)
EmittedKeys(ls) ==
    IF ls = <<>> THEN <<>>
    ELSE (IF trim(Head(ls)) = "" THEN <<>> ELSE <<FirstToken(trim(Head(ls)))>>)
         \o EmittedKeys(Tail(ls))

\* C21: for a text of directive lines, toConf of its tree emits the keys in
\* the order of their first occurrence in the text, keys that look like
\* non-negative integers included.
C21_SourceOrder ==
    (/\ pc = "serialized" /\ text # <<>>
     /\ \A i \in 1..Len(text) : IsDirectiveLine(text[i]))
    => Dedup(EmittedKeys(split(conf, "\n"))) = Dedup(DirectiveKeys(text))

\* no key and no string of x holds a '#'
RECURSIVE NoHash(_)
NoHash(x) ==
    /\ ~HasChar(x.v, "#")
    /\ \A i \in 1..Len(x.kv) : ~HasChar(x.kv[i].k, "#") /\ NoHash(x.kv[i].n)

\* the text of line l before its first '#'
BeforeHash(l) == SubSeq(l, 1, indexOf(l, "#") - 1)

\* C22: outside a lua block, a line whose first non-blank character is '#'
\* leaves the tree and the parse state as they are; any other line that holds
\* a '#' (between quotes or not) is parsed exactly as its text before the
\* first '#' is, so a continuation is joined to that text; and no key or
\* value of the tree holds a '#'.
C22_Comments ==
    [][(/\ pc = "parsing" /\ Len(text') = Len(text) + 1
        /\ ~isInLuaBlock /\ HasChar(Last(text'), "#"))
       => /\ NoHash(json')
          /\ [json |-> json', parent |-> parent', chunkedLine |-> chunkedLine',
              countOfParentsThatAreArrays |-> countOfParentsThatAreArrays',
              isInLuaBlock |-> isInLuaBlock', luaBlockValue |-> luaBlockValue',
              thrown |-> thrown']
               = IF trim(BeforeHash(Last(text'))) = "" THEN State
                 ELSE PhysicalLine(State, BeforeHash(Last(text')), NoOptions, Fresh)]_vars

\* a directive continued over two lines with comments, and a quoted '#', are parsed
C22_Witness ==
    /\ pc = "parsing"
    /\ text = <<"a x # c", "y; # d", "  # e", "a \"x # y\" z;">>
    /\ json = Object(<<Prop("a", String("x y"))>>)
    /\ chunkedLine = "a \"x"

(***************************************************************************)
(* toJSON called again and again on one Parser instance, each text left    *)
(* unterminated; the caller keeps the tree of the call before in json2.    *)
(***************************************************************************)
InitCalls ==
    /\ vocab = "unterminated"
    /\ text = <<>>
    /\ json = InitialState.json
    /\ parent = InitialState.parent
    /\ chunkedLine = InitialState.chunkedLine
    /\ countOfParentsThatAreArrays = InitialState.countOfParentsThatAreArrays
    /\ isInLuaBlock = InitialState.isInLuaBlock
    /\ luaBlockValue = InitialState.luaBlockValue
    /\ pc = "parsing"
    /\ conf = ""
    /\ json2 = Undefined
    /\ thrown = InitialState.thrown
    /\ files = [q \in {} |-> NoFile]
    /\ fileName = Null
    /\ serverRoot = Null
    /\ pending = {}
    /\ outcome = <<>>
    /\ ncalls = 1

\* the next call of toJSON keeps the path, the counter, the lua mode and the
\* buffers of the call before
EnterKeeping ==
    /\ pc \in {"parsed", "serialized"} /\ ncalls < MaxCalls
    /\ json2' = json
    /\ json' = InitialState.json
    /\ thrown' = InitialState.thrown
    /\ text' = <<>>
    /\ conf' = ""
    /\ pc' = "parsing"
    /\ ncalls' = ncalls + 1
    /\ UNCHANGED <<vocab, parent, chunkedLine, countOfParentsThatAreArrays, isInLuaBlock,
                   luaBlockValue, files, fileName, serverRoot, pending, outcome>>

\* toJSON is called with the next text: its locals are declared anew
Enter ==
    /\ pc \in {"parsed", "serialized"} /\ ncalls < MaxCalls
    /\ json2' = json
    /\ Becomes(InitialState)
    /\ text' = <<>>
    /\ conf' = ""
    /\ pc' = "parsing"
    /\ ncalls' = ncalls + 1
    /\ UNCHANGED <<vocab, files, fileName, serverRoot, pending, outcome>>

NextCalls ==
    \/ \E lineRaw \in Vocabulary(vocab) : Line(lineRaw)
    \/ Return
    \/ Serialize
    \/ Enter

CallsSpec == InitCalls /\ [][NextCalls]_vars

\* C23: in every call of toJSON on the instance, the first and the later
\* ones, the tree, the path, the array counter, the lua mode and the buffers
\* are after each line what they are in a parse of the same lines by a new
\* Parser, whatever state the text of the call before ended in.
C23_NoParseState == State = After(text)

\* the call before ended inside a lua block with a line buffered; this call
\* has returned the tree of its own text
C23_Witness ==
    /\ ncalls = 2 /\ pc = "parsed"
    /\ json2 = Object(<<Prop("by_lua_block", Object(<<>>))>>)
    /\ text = <<"a x", "b {">>
    /\ json = Object(<<Prop("a x b", Object(<<>>))>>)

(***************************************************************************)
(* Claims about the server root and about included files, under FileSpec.  *)
(***************************************************************************)
\* what the call that ended with event e ends with on an instance whose
\* serverRoot is root when the call is made
ReadEnd(e, root) ==
    IF e.how \in {"returned", "threw"}
    THEN Ended(e.id, e.op, e.args, ReadAt(e.args.file, e.args.options, root, 0))
    ELSE IF ReadAt(e.args.file, e.args.options, root, 0).thrown \in {"ENOENT", "ReferenceError"}
    THEN Event(e.id, e.op, e.args, "cb",
               ReadAt(e.args.file, e.args.options, root, 0).thrown, Undefined)
    ELSE Parsed(e, ReadAt(e.args.file, e.args.options, root, 0))

\* C24 as stated: a readConfigFile call that resolves includes ends on an
\* instance that has served other calls as it ends on a new Parser, where
\* the include patterns of the file are resolved against its directory.
C24_RootOfFile ==
    [][(/\ Len(outcome') > Len(outcome)
        /\ Last(outcome').op = "readConfigFile"
        /\ Last(outcome').args.options.parseIncludes)
       => Last(outcome') = ReadEnd(Last(outcome'), Null)]_vars

\* the calls made so far that name a file, ended or with a callback to run
FileCalls ==
    {[id |-> outcome[j].id, file |-> outcome[j].args.file] :
        j \in {m \in 1..Len(outcome) :
                 outcome[m].op \in {"setFileName", "readConfigFile", "writeConfigFile"}}}
    \cup {[id |-> t.id, file |-> t.args.file] : t \in pending}

\* the directory of the file the first of these calls named
FirstRoot ==
    IF FileCalls = {} THEN Null
    ELSE dirname((CHOOSE c \in FileCalls : \A d \in FileCalls : c.id <= d.id).file)

\* C24: a readConfigFile call that resolves includes ends as it ends on a
\* Parser whose serverRoot is the directory of the first file the instance
\* was given by setFileName, readConfigFile or writeConfigFile: that
\* directory, not the directory of the file read, is what the include
\* patterns are resolved against, also while callbacks are pending.
C24_RootOfFirstFile ==
    [][(/\ Len(outcome') > Len(outcome)
        /\ Last(outcome').op = "readConfigFile"
        /\ Last(outcome').args.options.parseIncludes)
       => /\ serverRoot' = FirstRoot'
          /\ Last(outcome') = ReadEnd(Last(outcome'), FirstRoot')]_vars

\* a file of /s has been read with its include resolved in /r, the directory
\* of the file read first
C24_Witness ==
    /\ serverRoot = "/r" /\ Len(outcome) = 2
    /\ outcome[1].op = "readConfigFile" /\ outcome[1].args.file = "/r/a.conf"
    /\ outcome[2].op = "readConfigFile" /\ outcome[2].args.file = "/s/a.conf"
    /\ outcome[2].how = "cb"
    /\ outcome[2].value = Object(<<Prop("a", String("2"))>>)

\* C25: no call ends because the reads of included files nested until the
\* call stack was used up: the recursion over included files ends by itself,
\* also when a file includes itself.
C25_IncludesEnd ==
    \A j \in 1..Len(outcome) : outcome[j].err # "RangeError"

====
